---- MODULE Spec2Model ----
(***************************************************************************)
(* Model of the example server addon (server/__init__.py, actions.py,      *)
(* settings.py).  The addon is an object the host calls into: initialize,  *)
(* setup, the REST handler get_random_folder, the event handler            *)
(* on_task_status_changed with its cached setting, on_settings_changed,    *)
(* get_simple_actions and execute_action.  Handlers are coroutines: every  *)
(* `await` of a host call is a position where other handlers may run.      *)
(***************************************************************************)
EXTENDS Naturals, Sequences, FiniteSets

\* ---------------------------------------------------------------- bounds
\* Number of on_task_status_changed coroutines that may be in flight at once.
MaxTasks == 2
\* Number of times the host may call initialize.
MaxInitCalls == 2

\* ------------------------------------------------------------ python values
None == "None"
\* The attribute _cached_setting does not exist on the object (hasattr is False).
NoAttr == "<no attribute>"

\* ------------------------------------------------- settings.py, the schema
\* GroupedSettings.favorite_color: two of the enum's values, the default among them.
FavoriteColors == {"red", "blue"}
\* ExampleSettings.folder_type: default "Asset"; the enum is the host's
\* folder types.
DefaultFolderType == "Asset"
FolderTypes == {"Asset", "Shot"}

\* --------------------------------------------------- actions.py, the catalog
\* An identifier is written as its tokens between the dashes, so that
\* str.startswith("example-") can be computed on it.
NoSubtypes == [is_none |-> TRUE, items |-> <<>>]
Subtypes(s) == [is_none |-> FALSE, items |-> s]
MaterialIcon(n) == [type |-> "material-symbols", name |-> n, url |-> None]
UrlIcon(u) == [type |-> "url", name |-> None, url |-> u]

SimpleActionManifest(id, lbl, cat, icon, etype, subtypes, multi) ==
    [identifier |-> id, label |-> lbl, category |-> cat, order |-> 100,
     icon |-> icon, entity_type |-> etype, entity_subtypes |-> subtypes,
     allow_multiselection |-> multi]

EXAMPLE_SIMPLE_ACTIONS ==
    << SimpleActionManifest(<<"example", "folder", "action", "1">>,
           "Example folder action 1", "server", MaterialIcon("folder"),
           "folder", NoSubtypes, FALSE),
       SimpleActionManifest(<<"example", "folder", "action", "2">>,
           "Example folder action 2", "admin", MaterialIcon("delete"),
           "folder", NoSubtypes, FALSE),
       SimpleActionManifest(<<"example", "task", "action">>,
           "Task Action", "server", MaterialIcon("task"),
           "task", NoSubtypes, FALSE),
       SimpleActionManifest(<<"launch", "nuke">>,
           "Launch Nuke", "application",
           UrlIcon("{addon_url}/public/icons/nuke.png"),
           "task", Subtypes(<<"Compositing", "Roto", "Matchmove">>), TRUE),
       SimpleActionManifest(<<"launch", "photoshop">>,
           "Launch Photoshop", "application",
           UrlIcon("{addon_url}/public/icons/photoshop.png"),
           "task", Subtypes(<<"Compositing", "Texture">>), TRUE),
       SimpleActionManifest(<<"launch", "houdini">>,
           "Launch Houdini", "application",
           UrlIcon("{addon_url}/public/icons/houdini.png"),
           "task", Subtypes(<<"FX", "Modeling">>), TRUE),
       SimpleActionManifest(<<"launch", "maya">>,
           "Launch Maya", "application",
           UrlIcon("{addon_url}/public/icons/maya.png"),
           "task", Subtypes(<<"FX", "Modeling", "Lighting", "Animation",
                              "Rigging", "Lookdev">>), FALSE) >>

\* ------------------------------------------------ the host, as the addon sees it
Users == {"alice", "bob"}
\* "demo" has a folders table, "ghost" has none (Postgres.UndefinedTableError).
Projects == {"demo", "ghost"}
ProjectsWithFolders == {"demo"}
\* project_demo.folders: all folders are of type Asset, none of type Shot.
FolderIds == {"f1", "f2"}
FolderRow(f) == [id |-> f, project_name |-> "demo", folder_type |-> "Asset",
                 name |-> IF f = "f1" THEN "chars" ELSE "props"]
\* Who may view which folder (what ensure_read_access decides).
Readers(f) == IF f = "f1" THEN {"alice"} ELSE {"alice", "bob"}
\* Arguments of get_simple_actions.
ProjectNameArgs == Projects \cup {None}
Variants == {"production", "staging"}
\* Events delivered on the subscribed topic.
Events == {[topic |-> "entity.task.status_changed", description |-> "task approved"],
           [topic |-> "entity.task.status_changed", description |-> "task on hold"]}
\* Identifiers an executor may carry: the catalog's and one unknown.
ActionIdentifiers ==
    {EXAMPLE_SIMPLE_ACTIONS[i].identifier : i \in 1..Len(EXAMPLE_SIMPLE_ACTIONS)}
        \cup {<<"publish">>}
\* The context of an executed action.
ActionContexts == {[project_name |-> "demo", entity_type |-> "folder",
                    entity_ids |-> <<"f2">>]}

Tasks == 1..MaxTasks

VARIABLES
    endpoints,      \* the REST endpoints registered with add_endpoint, in order
    subscriptions,  \* the EventStream subscriptions, in order
    initCalls,      \* how many times initialize has run
    cached,         \* self._cached_setting: NoAttr, None or a color
    studio,         \* grouped_settings.favorite_color of the studio settings
    changed,        \* on_settings_changed has run at least once
    tasks,          \* the on_task_status_changed coroutines
    loads,          \* how many get_studio_settings calls were made
    overlapped,     \* two get_cached_setting calls were ever in flight together
    call            \* the host's call of any other addon operation

vars == <<endpoints, subscriptions, initCalls, cached, studio, changed,
          tasks, loads, overlapped, call>>

\* What the addon object and its registrations hold.
addonState == <<endpoints, subscriptions, cached>>
\* Everything the event handlers use.
eventState == <<cached, studio, changed, tasks, loads, overlapped>>

\* ------------------------------------------------------------ call frames
NoRet == [kind |-> "none"]
NoExc == [type |-> "none", detail |-> <<>>]
\* ensure_read_access was not called in this request.
NoAccessCheck == [folder |-> None, user |-> None, granted |-> FALSE]
IdleCall == [op |-> "none", pc |-> "idle", user |-> None, project_name |-> None,
             folder_type |-> None, folder_id |-> None, entity |-> None,
             access |-> NoAccessCheck, ret |-> NoRet, exc |-> NoExc]
IdleTask == [pc |-> "idle", loaded |-> None, favorite_color |-> None]

Returned(op, ret) == [IdleCall EXCEPT !.op = op, !.pc = "done", !.ret = ret]
Raised(c, type, detail) ==
    [c EXCEPT !.pc = "raised", !.exc = [type |-> type, detail |-> detail]]

Init ==
    /\ endpoints = <<>>
    /\ subscriptions = <<>>
    /\ initCalls = 0
    /\ cached = NoAttr
    /\ studio \in FavoriteColors
    /\ changed = FALSE
    /\ tasks = [t \in Tasks |-> IdleTask]
    /\ loads = 0
    /\ overlapped = FALSE
    /\ call = IdleCall

\* ------------------------------------------------------------- initialize
RandomFolderEndpoint ==
    [path |-> "get-random-folder/{project_name}", handler |-> "get_random_folder",
     method |-> "GET"]
TaskStatusSubscription ==
    [topic |-> "entity.task.status_changed", handler |-> "on_task_status_changed"]

\* Mutant: the endpoint is registered twice.
RegisterEndpoints_Twice(eps) ==
    Append(Append(eps, RandomFolderEndpoint), RandomFolderEndpoint)
\* self.add_endpoint(...) of initialize
RegisterEndpoints(eps) == Append(eps, RandomFolderEndpoint)
\* EventStream.subscribe(...) of initialize
RegisterSubscriptions(subs) == Append(subs, TaskStatusSubscription)

initialize ==
    /\ call.pc = "idle"
    /\ initCalls < MaxInitCalls
    /\ endpoints' = RegisterEndpoints(endpoints)
    /\ subscriptions' = RegisterSubscriptions(subscriptions)
    /\ initCalls' = initCalls + 1
    /\ call' = Returned("initialize", NoRet)
    /\ UNCHANGED eventState

setup ==
    /\ call.pc = "idle"
    /\ call' = Returned("setup", NoRet)
    /\ UNCHANGED <<endpoints, subscriptions, initCalls>>
    /\ UNCHANGED eventState

\* ----------------------------------------------------------- browser actions
\* Mutant: only the production variant gets the catalog.
GetSimpleActions_ByVariant(project_name, variant) ==
    IF variant = "production" THEN EXAMPLE_SIMPLE_ACTIONS ELSE <<>>
GetSimpleActions(project_name, variant) == EXAMPLE_SIMPLE_ACTIONS

get_simple_actions ==
    /\ call.pc = "idle"
    /\ \E project_name \in ProjectNameArgs, variant \in Variants :
           call' = Returned("get_simple_actions",
                            [kind |-> "actions",
                             value |-> GetSimpleActions(project_name, variant)])
    /\ UNCHANGED <<endpoints, subscriptions, initCalls>>
    /\ UNCHANGED eventState

\* identifier.startswith(prefix + "-")
StartsWith(identifier, prefix) == Len(identifier) > 1 /\ identifier[1] = prefix

\* entity_class.load(project_name, entity_id).name
EntityName(context) == FolderRow(context.entity_ids[1]).name

ExecuteAction(identifier, context) ==
    IF StartsWith(identifier, "example")
    THEN Returned("execute_action",
                  [kind |-> "server_action",
                   message |-> identifier \o <<"performed", "on",
                                   context.entity_type, EntityName(context)>>])
    ELSE IF StartsWith(identifier, "launch")
    THEN Returned("execute_action",
                  [kind |-> "launcher_action", args |-> <<"i_wont_work">>])
    ELSE Raised([IdleCall EXCEPT !.op = "execute_action"],
                "NotImplementedException",
                <<"Not implemented action:">> \o identifier)

execute_action ==
    /\ call.pc = "idle"
    /\ \E identifier \in ActionIdentifiers, context \in ActionContexts :
           call' = ExecuteAction(identifier, context)
    /\ UNCHANGED <<endpoints, subscriptions, initCalls>>
    /\ UNCHANGED eventState

\* ------------------------------------------------------ get_random_folder
\* A request arrives on the registered endpoint: the handler awaits
\* get_project_settings.
get_random_folder ==
    /\ call.pc = "idle"
    /\ \E i \in 1..Len(endpoints) : endpoints[i].handler = "get_random_folder"
    /\ \E user \in Users, project_name \in Projects :
           call' = [IdleCall EXCEPT !.op = "get_random_folder",
                                    !.pc = "await_get_project_settings",
                                    !.user = user,
                                    !.project_name = project_name]
    /\ UNCHANGED <<endpoints, subscriptions, initCalls>>
    /\ UNCHANGED eventState

\* get_project_settings returns; the handler awaits Postgres.fetch.
get_random_folder_settings ==
    /\ call.pc = "await_get_project_settings"
    /\ \E folder_type \in FolderTypes :
           call' = [call EXCEPT !.folder_type = folder_type, !.pc = "await_fetch"]
    /\ UNCHANGED <<endpoints, subscriptions, initCalls>>
    /\ UNCHANGED eventState

\* SELECT id FROM project_<name>.folders WHERE folder_type = $1
\* ORDER BY RANDOM() LIMIT 1: the answers the database may give.
PostgresFetch(project_name, folder_type) ==
    IF project_name \notin ProjectsWithFolders
    THEN {[error |-> "UndefinedTableError", rows |-> <<>>]}
    ELSE LET match == {f \in FolderIds :
                          /\ FolderRow(f).project_name = project_name
                          /\ FolderRow(f).folder_type = folder_type}
         IN  IF match = {}
             THEN {[error |-> None, rows |-> <<>>]}
             ELSE {[error |-> None, rows |-> <<[id |-> f]>>] : f \in match}

\* Mutant: the two messages are exchanged.
AfterFetch_Swapped(c, result) ==
    IF result.error = "UndefinedTableError"
    THEN Raised(c, "NotFoundException", <<"No folder found">>)
    ELSE IF Len(result.rows) = 0
    THEN Raised(c, "NotFoundException", <<"Project", c.project_name, "not found">>)
    ELSE [c EXCEPT !.folder_id = result.rows[1].id, !.pc = "await_load"]
\* The two try blocks after the query.
AfterFetch(c, result) ==
    IF result.error = "UndefinedTableError"
    THEN Raised(c, "NotFoundException", <<"Project", c.project_name, "not found">>)
    ELSE IF Len(result.rows) = 0
    THEN Raised(c, "NotFoundException", <<"No folder found">>)
    ELSE [c EXCEPT !.folder_id = result.rows[1].id, !.pc = "await_load"]

get_random_folder_fetch ==
    /\ call.pc = "await_fetch"
    /\ \E result \in PostgresFetch(call.project_name, call.folder_type) :
           call' = AfterFetch(call, result)
    /\ UNCHANGED <<endpoints, subscriptions, initCalls>>
    /\ UNCHANGED eventState

\* FolderEntity.load returns; the handler awaits ensure_read_access.
get_random_folder_load ==
    /\ call.pc = "await_load"
    /\ call' = [call EXCEPT !.entity = FolderRow(call.folder_id).id,
                            !.pc = "await_ensure_read_access"]
    /\ UNCHANGED <<endpoints, subscriptions, initCalls>>
    /\ UNCHANGED eventState

\* folder.ensure_read_access(user): raises ForbiddenException when the user
\* does not have rights to view the folder.
EnsureReadAccess(folder, user) ==
    [folder |-> folder, user |-> user, granted |-> user \in Readers(folder)]
\* folder.as_user(user): the folder as this user may see it.
AsUser(folder, user) == [kind |-> "folder", view |-> "as_user", id |-> folder,
                         user |-> user]
\* folder.payload: the folder with all its attributes.
Payload(folder) == [kind |-> "folder", view |-> "payload", id |-> folder,
                    user |-> None]

\* Mutant: the folder is returned without the access check.
AfterReadAccess_Unchecked(c) ==
    [c EXCEPT !.pc = "done", !.ret = AsUser(c.entity, c.user)]
\* The access check and the return.
AfterReadAccess(c) ==
    LET check == EnsureReadAccess(c.entity, c.user)
    IN  IF check.granted
        THEN [c EXCEPT !.access = check, !.pc = "done",
                       !.ret = AsUser(c.entity, c.user)]
        ELSE Raised([c EXCEPT !.access = check], "ForbiddenException", <<>>)

get_random_folder_access ==
    /\ call.pc = "await_ensure_read_access"
    /\ call' = AfterReadAccess(call)
    /\ UNCHANGED <<endpoints, subscriptions, initCalls>>
    /\ UNCHANGED eventState

\* ----------------------------------------------------------- event handlers
ExampleSettings(folder_type, favorite_color) ==
    [folder_type |-> folder_type,
     grouped_settings |-> [favorite_color |-> favorite_color]]
SettingsValues ==
    {ExampleSettings(DefaultFolderType, c) : c \in FavoriteColors}

\* Mutant: the cache is never trusted.
NeedsLoad_Always(c) == TRUE
\* not hasattr(self, "_cached_setting") or self._cached_setting is None
NeedsLoad(c) == c = NoAttr \/ c = None

InFlight(t) == tasks[t].pc \in {"await_get_studio_settings", "loaded"}

\* An event arrives on the subscribed topic: the handler calls
\* get_cached_setting, which returns at
\* once when the cache is filled and awaits get_studio_settings otherwise.
\* Coroutines are interchangeable, so a new one takes the lowest free slot.
on_task_status_changed(t) ==
    /\ tasks[t].pc = "idle"
    /\ \A s \in Tasks : s < t => tasks[s].pc # "idle"
    /\ \E event \in Events :
         /\ \E i \in 1..Len(subscriptions) :
               /\ subscriptions[i].topic = event.topic
               /\ subscriptions[i].handler = "on_task_status_changed"
         /\ IF NeedsLoad(cached)
            THEN /\ tasks' = [tasks EXCEPT ![t].pc = "await_get_studio_settings"]
                 /\ loads' = loads + 1
                 /\ overlapped' = (overlapped \/ \E s \in Tasks \ {t} : InFlight(s))
            ELSE /\ tasks' = [tasks EXCEPT ![t].pc = "done",
                                           ![t].favorite_color = cached]
                 /\ UNCHANGED <<loads, overlapped>>
    /\ UNCHANGED <<endpoints, subscriptions, initCalls, cached, studio, changed, call>>

\* The host has read the studio settings; the coroutine is ready to resume.
get_studio_settings_done(t) ==
    /\ tasks[t].pc = "await_get_studio_settings"
    /\ tasks' = [tasks EXCEPT ![t].pc = "loaded", ![t].loaded = studio]
    /\ UNCHANGED <<endpoints, subscriptions, initCalls, cached, studio, changed,
                   loads, overlapped, call>>

\* get_cached_setting resumes: it stores the color and returns the attribute.
get_cached_setting_resume(t) ==
    /\ tasks[t].pc = "loaded"
    /\ cached' = tasks[t].loaded
    /\ tasks' = [tasks EXCEPT ![t].pc = "done", ![t].favorite_color = cached']
    /\ UNCHANGED <<endpoints, subscriptions, initCalls, studio, changed,
                   loads, overlapped, call>>

\* on_task_status_changed has logged the color and returns.
task_return(t) ==
    /\ tasks[t].pc = "done"
    /\ tasks' = [tasks EXCEPT ![t] = IdleTask]
    /\ UNCHANGED <<endpoints, subscriptions, initCalls, cached, studio, changed,
                   loads, overlapped, call>>

\* The settings were saved and the host calls on_settings_changed.
on_settings_changed ==
    /\ \E old_settings \in SettingsValues, new_settings \in SettingsValues :
         LET new_favorite_color == new_settings.grouped_settings.favorite_color
         IN  /\ cached' = new_favorite_color
             /\ studio' = new_favorite_color
    /\ changed' = TRUE
    /\ UNCHANGED <<endpoints, subscriptions, initCalls, tasks, loads, overlapped, call>>

\* The host takes the response (or the exception) of the finished call.
call_return ==
    /\ call.pc \in {"done", "raised"}
    /\ call' = IdleCall
    /\ UNCHANGED <<endpoints, subscriptions, initCalls>>
    /\ UNCHANGED eventState

Next ==
    \/ initialize
    \/ setup
    \/ get_simple_actions
    \/ execute_action
    \/ get_random_folder
    \/ get_random_folder_settings
    \/ get_random_folder_fetch
    \/ get_random_folder_load
    \/ get_random_folder_access
    \/ on_settings_changed
    \/ \E t \in Tasks : on_task_status_changed(t)
    \/ \E t \in Tasks : get_studio_settings_done(t)
    \/ \E t \in Tasks : get_cached_setting_resume(t)
    \/ \E t \in Tasks : task_return(t)
    \/ call_return

Spec == Init /\ [][Next]_vars

\* ------------------------------------------------------------------ claims
\* The step in which coroutine t starts handling an event.
StartsEvent(t) == tasks[t].pc = "idle" /\ tasks'[t].pc # "idle"
\* A step of the get_random_folder request.
RandomFolderStep == call' # call /\ call'.op = "get_random_folder"
FetchAnswered == call.pc \notin {"await_get_project_settings", "await_fetch"}
FoldersOfType(project_name, folder_type) ==
    {f \in FolderIds : /\ FolderRow(f).project_name = project_name
                       /\ FolderRow(f).folder_type = folder_type}

\* C1: after n calls of initialize the registry holds exactly n copies of the
\* one endpoint (get-random-folder/{project_name}, GET, get_random_folder) and
\* n copies of the one subscription (entity.task.status_changed,
\* on_task_status_changed), whatever other operations have run.
C1_OneEndpointOneSubscriptionPerInitialize ==
    /\ Len(endpoints) = initCalls
    /\ Len(subscriptions) = initCalls
    /\ \A i \in 1..Len(endpoints) : endpoints[i] = RandomFolderEndpoint
    /\ \A i \in 1..Len(subscriptions) : subscriptions[i] = TaskStatusSubscription

\* C1 witness: initialize ran once and a folder request, an event and a
\* settings change were handled after it.
C1_Witness ==
    /\ initCalls = 1
    /\ Len(endpoints) = 1
    /\ call.op = "get_random_folder" /\ call.pc = "done"
    /\ changed /\ loads = 1

\* C2: every call of get_simple_actions, for every project_name and variant
\* and in every state, returns EXAMPLE_SIMPLE_ACTIONS (seven descriptors, in
\* order) and leaves the addon's state, the cached setting included, alone.
C2_SimpleActionsStaticAndPure ==
    [][(call.pc = "idle" /\ call'.op = "get_simple_actions")
          => /\ call'.ret.kind = "actions"
             /\ call'.ret.value = EXAMPLE_SIMPLE_ACTIONS
             /\ Len(call'.ret.value) = 7
             /\ UNCHANGED <<endpoints, subscriptions, cached, studio, tasks>>]_vars

\* C2 witness: the catalog was returned after the cache was filled and the
\* settings were changed.
C2_Witness ==
    /\ call.op = "get_simple_actions" /\ call.pc = "done"
    /\ call.ret.value = EXAMPLE_SIMPLE_ACTIONS
    /\ cached \in FavoriteColors /\ changed /\ initCalls = 1

\* C3: once on_settings_changed has completed the cache holds the new color,
\* and the next get_cached_setting (any call that starts after it) returns
\* that color without loading the studio settings.
C3_NextCallUsesChangedSetting ==
    [][/\ on_settings_changed => cached' = studio'
       /\ \A t \in Tasks :
            (changed /\ StartsEvent(t))
               => /\ tasks'[t].pc = "done"
                  /\ tasks'[t].favorite_color = studio
                  /\ loads' = loads]_vars

\* C4: get_studio_settings is called only when the cache is absent or None;
\* a call that finds the cache filled returns it without loading; the loaded
\* color is stored; and as long as no two calls were in flight together the
\* studio settings are loaded at most once, every finished call holding the
\* stored color while the settings are unchanged.
C4_LoadedAtMostOnceSequentially ==
    /\ [](~overlapped => loads <= 1)
    /\ []((~overlapped /\ ~changed)
            => \A t \in Tasks :
                  tasks[t].pc = "done" => tasks[t].favorite_color = cached)
    /\ [][\A t \in Tasks :
            /\ StartsEvent(t) =>
                 IF NeedsLoad(cached)
                 THEN tasks'[t].pc = "await_get_studio_settings"
                      /\ loads' = loads + 1
                 ELSE tasks'[t].pc = "done" /\ tasks'[t].favorite_color = cached
                      /\ loads' = loads /\ cached' = cached
            /\ (tasks[t].pc = "loaded" /\ tasks'[t].pc = "done")
                 => cached' = tasks[t].loaded
                    /\ tasks'[t].favorite_color = tasks[t].loaded]_vars

\* C4 witness: one load was made, and a later call, started after the first
\* had finished, was served from the cache.
C4_Witness ==
    /\ ~overlapped /\ ~changed /\ loads = 1
    /\ cached \in FavoriteColors
    /\ tasks[1].pc = "done" /\ tasks[1].loaded = None
    /\ tasks[1].favorite_color = cached

\* C5: a request that returns folder data returns folder.as_user(user) for
\* the requesting user and the selected folder, after ensure_read_access for
\* that folder and user was granted; a request whose user may not view the
\* folder ends with ForbiddenException and no data.
C5_ReadAccessBeforeFolderData ==
    call.op = "get_random_folder" =>
        /\ call.pc = "done" =>
              /\ call.ret = AsUser(call.folder_id, call.user)
              /\ call.entity = call.folder_id
              /\ call.access = [folder |-> call.folder_id, user |-> call.user,
                                granted |-> TRUE]
              /\ call.user \in Readers(call.folder_id)
        /\ (call.pc \in {"done", "raised"} /\ call.entity # None
              /\ call.user \notin Readers(call.entity)) =>
              /\ call.pc = "raised"
              /\ call.exc.type = "ForbiddenException"
        /\ call.pc # "done" => call.ret = NoRet

\* C5 witness: bob, who may view f2 only, got f2 as he may see it.
C5_Witness ==
    /\ call.op = "get_random_folder" /\ call.pc = "done"
    /\ call.user = "bob" /\ call.ret.id = "f2" /\ call.ret.view = "as_user"

\* C6: once the query has been answered, a project without a folders table
\* has ended with NotFoundException "Project <name> not found" and a project
\* without a folder of the configured type with NotFoundException "No folder
\* found", in both cases with no entity loaded and no access check made; no
\* step of the request changes the addon's state.
C6_MissingDataIsNotFound ==
    /\ []((call.op = "get_random_folder" /\ FetchAnswered) =>
            IF call.project_name \notin ProjectsWithFolders
            THEN /\ call.pc = "raised"
                 /\ call.exc = [type |-> "NotFoundException",
                                detail |-> <<"Project", call.project_name,
                                             "not found">>]
                 /\ call.entity = None /\ call.access = NoAccessCheck
                 /\ call.ret = NoRet
            ELSE IF FoldersOfType(call.project_name, call.folder_type) = {}
            THEN /\ call.pc = "raised"
                 /\ call.exc = [type |-> "NotFoundException",
                                detail |-> <<"No folder found">>]
                 /\ call.entity = None /\ call.access = NoAccessCheck
                 /\ call.ret = NoRet
            ELSE call.exc.type # "NotFoundException")
    /\ [][RandomFolderStep => UNCHANGED <<endpoints, subscriptions, cached>>]_vars

\* C6 witness: a request for the project without a folders table has ended
\* after the cache was filled.
C6_Witness ==
    /\ call.op = "get_random_folder" /\ call.pc = "raised"
    /\ call.exc.detail = <<"Project", "ghost", "not found">>
    /\ cached \in FavoriteColors
====
